---------------------------- MODULE Spec2Model ----------------------------
(***************************************************************************)
(* FinMet-Dashboard (src/App.tsx): the quantitative engine of the          *)
(* dashboard (CSV ingestion, integrity scan, linear-trend forecast with    *)
(* scenario bands, two-stage DCF valuation) and the React state machine    *)
(* that drives it (runtime polling, debounce timers, asynchronous Python   *)
(* runs with a native JS fallback).                                        *)
(*                                                                         *)
(* Numbers.  A JavaScript / Python value is a pair <<n, d>>:               *)
(*   d > 0   the rational n/d in lowest terms (floating point is modelled  *)
(*           by exact rational arithmetic; rounding error of the double    *)
(*           format and the sign of zero are not modelled);                *)
(*   d = 0   <<0,0>> NaN, <<1,0>> Infinity, <<-1,0>> -Infinity;            *)
(*   d < 0   the non-numbers: null, undefined, a non-numeric string.       *)
(***************************************************************************)
EXTENDS Integers, Sequences, FiniteSets, TLC

VARIABLES
    data,                 \* useState data: the record set
    pythonStatus,         \* 'loading' | 'ready' | 'error'
    loadPyodideDefined,   \* window.loadPyodide is defined (the CDN script ran)
    pyodideSet,           \* window.pyodide is set
    attempts,             \* the polling closure's counter
    intervalActive,       \* the 500 ms polling interval is not cleared
    initPc,               \* position of initPython
    forecastMetric,
    forecastHorizon,
    forecastSensitivity,
    forecastData,
    computeSource,
    forecastTimer,        \* the 200 ms timeout of the forecast effect is pending
    forecastJobs,         \* runForecast calls awaiting runPythonAsync
    forecastOutcome,      \* how the last finished runForecast ended
    baseRev,
    wacc,
    termGrowth,
    netDebt,
    shares,
    valuationResult,
    valuationSource,
    valuationTimer,       \* the 250 ms timeout of the valuation effect is pending
    valuationJobs,        \* runValuation calls awaiting runPythonAsync
    valuationOutcome,     \* how the last finished runValuation ended
    scanReport,           \* what the last integrity scan logged: score, findings, notes
    edits                 \* number of user inputs so far (bounded by MaxEdits)

vars == <<data, pythonStatus, loadPyodideDefined, pyodideSet, attempts,
          intervalActive, initPc, forecastMetric, forecastHorizon,
          forecastSensitivity, forecastData, computeSource, forecastTimer,
          forecastJobs, forecastOutcome, baseRev, wacc, termGrowth, netDebt,
          shares, valuationResult, valuationSource, valuationTimer,
          valuationJobs, valuationOutcome, scanReport, edits>>

----------------------------------------------------------------------------
(* Bounds of the model *)

MaxEdits == 2
MaxInFlight == 2

----------------------------------------------------------------------------
(* JavaScript values *)

Num(n)   == <<n, 1>>
NaN      == <<0, 0>>
PosInf   == <<1, 0>>
NegInf   == <<-1, 0>>
Null     == <<0, -1>>
Undef    == <<0, -2>>
Txt      == <<0, -3>>     \* a string that is not the text of a number, e.g. "N/A"

IsNumber(v) == v[2] >= 0          \* typeof v === 'number'
IsFinite(v) == v[2] > 0

Abs(n) == IF n < 0 THEN -n ELSE n
Sgn(n) == IF n < 0 THEN -1 ELSE IF n > 0 THEN 1 ELSE 0

RECURSIVE GCD(_, _)
GCD(a, b) == IF b = 0 THEN a ELSE GCD(b, a % b)

\* n/d in lowest terms with a positive denominator; d = 0 gives NaN or +-Infinity
Norm(n, d) ==
    IF d = 0 THEN <<Sgn(n), 0>>
    ELSE LET g == GCD(Abs(n), Abs(d))
         IN  <<Sgn(d) * (n \div g), Abs(d) \div g>>

\* ToNumber: null -> 0, undefined -> NaN, a non-numeric string -> NaN
ToNumber(v) ==
    IF IsNumber(v) THEN v ELSE IF v = Null THEN Num(0) ELSE NaN

\* IEEE addition on numbers
NumAdd(x, y) ==
    IF x[2] = 0 \/ y[2] = 0
    THEN IF x = NaN \/ y = NaN THEN NaN
         ELSE IF x[2] = 0 /\ y[2] = 0
              THEN (IF x = y THEN x ELSE NaN)
              ELSE (IF x[2] = 0 THEN x ELSE y)
    ELSE LET g == GCD(x[2], y[2])
         IN  Norm(x[1] * (y[2] \div g) + y[1] * (x[2] \div g), (x[2] \div g) * y[2])

NumNeg(x) == <<-x[1], x[2]>>

\* IEEE multiplication on numbers
NumMul(x, y) ==
    IF x[2] = 0 \/ y[2] = 0
    THEN <<Sgn(x[1]) * Sgn(y[1]), 0>>
    ELSE LET g1 == GCD(Abs(x[1]), y[2])
             g2 == GCD(Abs(y[1]), x[2])
         IN  Norm((x[1] \div g1) * (y[1] \div g2), (x[2] \div g2) * (y[2] \div g1))

\* 1/x: 1/0 = Infinity, 1/Infinity = 0, 1/NaN = NaN
NumInv(x) ==
    IF x = NaN THEN NaN
    ELSE IF x[2] = 0 THEN Num(0)
    ELSE IF x[1] = 0 THEN PosInf
    ELSE IF x[1] < 0 THEN <<-x[2], -x[1]>>
    ELSE <<x[2], x[1]>>

\* The JavaScript operators  a - b, a * b, a / b  (operands go through ToNumber)
Sub(a, b) == NumAdd(ToNumber(a), NumNeg(ToNumber(b)))
Mul(a, b) == NumMul(ToNumber(a), ToNumber(b))
Div(a, b) == NumMul(ToNumber(a), NumInv(ToNumber(b)))

\* The JavaScript operator  a + b : string concatenation when either side is a
\* string (the result is again a non-numeric string), numeric addition otherwise
Plus(a, b) ==
    IF a = Txt \/ b = Txt THEN Txt ELSE NumAdd(ToNumber(a), ToNumber(b))

\* a > b on numbers (false when either is NaN)
Gt(a, b) ==
    LET x == ToNumber(a)
        y == ToNumber(b)
    IN  IF x = NaN \/ y = NaN THEN FALSE
        ELSE IF x[2] = 0 THEN x = PosInf /\ y # PosInf
        ELSE IF y[2] = 0 THEN y = NegInf
        ELSE x[1] * y[2] > y[1] * x[2]

Lt(a, b) == Gt(b, a)

\* Math.pow(x, k) for an integer k >= 0
RECURSIVE Pow(_, _)
Pow(x, k) == IF k = 0 THEN Num(1) ELSE NumMul(x, Pow(x, k - 1))

\* Math.round: the nearest integer, halves towards +Infinity; NaN and the
\* infinities are returned unchanged
MathRound(v) ==
    LET x == ToNumber(v)
    IN  IF x[2] = 0 THEN x
        ELSE LET q   == x[1] \div x[2]          \* floor(x)
                 rem == x[1] - q * x[2]
             IN  Num(IF 2 * rem >= x[2] THEN q + 1 ELSE q)

\* Python's int(float): truncation towards zero (finite floats only)
PyInt(x) ==
    IF x[1] >= 0 THEN Num(x[1] \div x[2]) ELSE Num(-((-x[1]) \div x[2]))

\* JavaScript truthiness of a record field
Truthy(v) ==
    IF v = Txt THEN TRUE
    ELSE IF IsNumber(v) THEN v # NaN /\ v # Num(0)
    ELSE FALSE

\* The global isNaN(v)
IsNaN(v) == ToNumber(v) = NaN

\* Number.prototype.toFixed(1), as the number of tenths (halves away from
\* zero); NaN and the infinities print as "NaN" / "Infinity"
ToFixed1(x) ==
    IF x[2] = 0 THEN x
    ELSE LET q    == Abs(x[1]) \div x[2]
             rem  == Abs(x[1]) % x[2]
             dig  == (10 * rem) \div x[2]
             rem2 == (10 * rem) % x[2]
             t    == 10 * q + dig + (IF 2 * rem2 >= x[2] THEN 1 ELSE 0)
         IN  Norm(Sgn(x[1]) * t, 10)


----------------------------------------------------------------------------
(* Records and CSV ingestion *)

Fields == {"Year", "Revenue", "Net Income", "Free Cash Flow", "Budget"}

\* A cell of a CSV line is the text of an integer (Num(n)), a non-numeric
\* text (Txt), or empty / white space (CellEmpty).  A line is the sequence of
\* its comma-separated cells; a blank line is the empty sequence.
CellEmpty == <<0, -4>>

\* obj[h] = isNaN(Number(val)) ? val : Number(val), for val = values[i]?.trim():
\* Number("") is 0, Number(undefined) is NaN (the field is then undefined), a
\* non-numeric text is kept as a string
ConvertCell(values, i) ==
    IF i > Len(values) THEN Undef
    ELSE IF values[i] = CellEmpty THEN Num(0)
    ELSE values[i]

\* The column of header h that wins (a repeated header overwrites), 0 if none
ColumnOf(headers, h) ==
    LET cols == {i \in 1..Len(headers) : headers[i] = h}
    IN  IF cols = {} THEN 0 ELSE CHOOSE i \in cols : \A j \in cols : j <= i

\* Budget defaulting of parseCSV: as the source has it, only when Budget is
\* falsy and Revenue is truthy
BudgetOf(budget, revenue) ==
    IF ~Truthy(budget) /\ Truthy(revenue)
    THEN MathRound(Mul(revenue, <<19, 20>>))
    ELSE budget

ParseLine(headers, values) ==
    LET obj == [h \in Fields |->
                  IF ColumnOf(headers, h) = 0 THEN Undef
                  ELSE ConvertCell(values, ColumnOf(headers, h))]
    IN  [obj EXCEPT !["Budget"] = BudgetOf(obj["Budget"], obj["Revenue"])]

\* text.split('\n').filter(l => l.trim())
NonBlank(text) == SelectSeq(text, LAMBDA l : Len(l) > 0)

parseCSV(text) ==
    LET lines == NonBlank(text)
    IN  IF Len(lines) < 2 THEN <<>>
        ELSE [k \in 1..(Len(lines) - 1) |-> ParseLine(lines[1], lines[k + 1])]

\* The uploaded files of the model
FileExample ==
    << <<"Year", "Revenue", "Net Income", "Free Cash Flow">>,
       <<Num(2020), Num(100), Num(15), Num(12)>>,
       <<Num(2021), Num(110), Num(16), Num(13)>>,
       <<>>,
       <<Num(2022), Num(120), Num(19), Num(14)>> >>

FileOneRow ==
    << <<"Year", "Revenue", "Net Income", "Free Cash Flow">>,
       <<Num(2023), Num(130), Num(20), Num(15)>> >>

FileSameYear ==
    << <<"Year", "Revenue", "Net Income", "Free Cash Flow">>,
       <<Num(2021), Num(50), Num(5), Num(-4)>>,
       <<Num(2021), Num(70), Num(7), Num(4)>> >>

FileUnsorted ==
    << <<"Year", "Revenue", "Net Income", "Free Cash Flow">>,
       <<Num(2022), Num(120), Num(19), Num(14)>>,
       <<Num(2020), Num(100), Num(15), Num(12)>>,
       <<Num(2021), Num(110), Num(16), Num(13)>> >>

\* Revenue is the last column: the short lines have no Revenue cell
FileNulls ==
    << <<"Year", "Net Income", "Free Cash Flow", "Revenue">>,
       <<Num(2020), Num(15), Num(12), Num(100)>>,
       <<Num(2021), Num(16), Num(13)>>,
       <<Num(2022), Num(19), Num(14), Num(120)>>,
       <<Num(2031), Num(21), Num(23)>> >>

FileText ==
    << <<"Year", "Revenue", "Net Income", "Free Cash Flow">>,
       <<Num(2020), Num(100), Txt, Num(12)>>,
       <<Num(2021), Num(110), Num(16), CellEmpty>>,
       <<Num(2022), Num(120), Num(17), Num(14)>> >>

FileZeroRevenue ==
    << <<"Year", "Revenue">>,
       <<Num(2020), Num(0)>>,
       <<Num(2021), Num(10)>>,
       <<Num(2022), Num(20)>> >>

\* Only a Year column, one line per year 2001 .. 2011
FileYearsOnly ==
    << <<"Year">> >> \o [k \in 1..11 |-> <<Num(2000 + k)>>]

FileHeaderOnly ==
    << <<"Year", "Revenue", "Net Income", "Free Cash Flow">>, <<>> >>

Files == {FileExample, FileOneRow, FileSameYear, FileUnsorted, FileNulls,
          FileText, FileZeroRevenue, FileYearsOnly, FileHeaderOnly}

\* generateSampleData(): six rows 2020 .. 2025.  Money is in units of 1000
\* (the source's baseRevenue is 100000) so that the exact arithmetic below
\* stays in TLC's integers.  rnd[i] is the first Math.random() of row i and
\* coin[i] tells whether the second one exceeded 0.5.
baseRevenue == 100

SampleRow(i, r, c) ==
    LET growth  == NumAdd(NumAdd(Num(1), <<i, 10>>), NumMul(r, <<1, 20>>))
        revenue == MathRound(NumMul(Num(baseRevenue), growth))
    IN  [h \in Fields |->
           CASE h = "Year"           -> Num(2020 + i)
             [] h = "Revenue"        -> revenue
             [] h = "Net Income"     -> MathRound(NumMul(revenue, <<3, 20>>))
             [] h = "Free Cash Flow" -> MathRound(NumMul(revenue, <<3, 25>>))
             [] h = "Budget"         ->
                  MathRound(NumMul(revenue, IF c THEN <<19, 20>> ELSE <<21, 20>>))]

generateSampleData(rnd, coin) == [k \in 1..6 |-> SampleRow(k - 1, rnd[k], coin[k])]

\* The draws of Math.random() the model starts from
SampleDraws ==
    { [rnd  |-> << <<9, 10>>, <<3, 5>>, <<9, 10>>, Num(0), Num(0), Num(0) >>,
       coin |-> <<TRUE, FALSE, TRUE, FALSE, TRUE, FALSE>>] }

----------------------------------------------------------------------------
(* Forecast: the native path (runJSForecast) *)

Column(d, f) == [k \in 1..Len(d) |-> d[k][f]]

\* xs.reduce((a, b) => a + b, 0)
RECURSIVE SumTo(_, _)
SumTo(xs, k) == IF k = 0 THEN Num(0) ELSE Plus(SumTo(xs, k - 1), xs[k])

\* xs.reduce((a, b, i) => a + b * ys[i], 0)
RECURSIVE SumProdTo(_, _, _)
SumProdTo(xs, ys, k) ==
    IF k = 0 THEN Num(0) ELSE Plus(SumProdTo(xs, ys, k - 1), Mul(xs[k], ys[k]))

\* The least-squares line as both native paths compute it
Denominator(x) ==
    LET n == Num(Len(x))
    IN  Sub(Mul(n, SumProdTo(x, x, Len(x))), Mul(SumTo(x, Len(x)), SumTo(x, Len(x))))

Slope(x, y) ==
    LET n == Num(Len(x))
    IN  Div(Sub(Mul(n, SumProdTo(x, y, Len(x))), Mul(SumTo(x, Len(x)), SumTo(y, Len(y)))),
            Denominator(x))

\* An intercept taken at the first year instead of the mean year
InterceptAtFirstYear(x, y) ==
    Sub(Div(SumTo(y, Len(y)), Num(Len(x))), Mul(Slope(x, y), x[1]))

\* intercept = (sumY - slope * sumX) / n
Intercept(x, y) ==
    Div(Sub(SumTo(y, Len(y)), Mul(Slope(x, y), SumTo(x, Len(x)))), Num(Len(x)))

\* A ratio counted from zero: the enumerate index without its + 1
SpreadPctZeroBased(sens, i, horizon) == Mul(Div(Num(sens), Num(100)), Div(Num(i - 1), Num(horizon)))

\* currentSpreadPct = (sensitivity / 100) * (i / horizon)
SpreadPct(sens, i, horizon) == Mul(Div(Num(sens), Num(100)), Div(Num(i), Num(horizon)))

\* The rounding of the native path
JSRound(v) == MathRound(v)

\* One pass of the loop  for (let i = 1; i <= forecastHorizon; i++)
JSFuturePoint(slope, intercept, lastYear, sens, horizon, i) ==
    LET year   == Plus(lastYear, Num(i))
        val    == Plus(Mul(slope, year), intercept)
        spread == SpreadPct(sens, i, horizon)
        high   == Mul(val, Plus(Num(1), spread))
        low    == Mul(val, Sub(Num(1), spread))
    IN  [Year |-> year, Forecast |-> JSRound(val), High |-> JSRound(high),
         Low |-> JSRound(low)]

\* A loop that stops one year short:  i < forecastHorizon
JSLoopCountShort(horizon) == horizon - 1

\* The number of passes of that loop
JSLoopCount(horizon) == horizon

JSFuture(d, metric, horizon, sens) ==
    LET x == Column(d, "Year")
        y == Column(d, metric)
    IN  [i \in 1..JSLoopCount(horizon) |->
           JSFuturePoint(Slope(x, y), Intercept(x, y), x[Len(x)], sens, horizon, i)]

\* The chart series both paths build: the historical points, the junction
\* point, the projected points.  Confidence is <<>> for null, <<low, high>>
\* for the range tuple.
HistoricalPoint(rec, metric) ==
    [Year |-> rec["Year"], Historical |-> rec[metric], Forecast |-> Null,
     High |-> Null, Low |-> Null, Confidence |-> <<>>]

\* A junction that anchors the forecast line but not the band
JunctionPointNoBand(lastYear, lastVal) ==
    [Year |-> lastYear, Historical |-> lastVal, Forecast |-> lastVal,
     High |-> Null, Low |-> Null, Confidence |-> <<>>]

JunctionPoint(lastYear, lastVal) ==
    [Year |-> lastYear, Historical |-> lastVal, Forecast |-> lastVal,
     High |-> lastVal, Low |-> lastVal, Confidence |-> <<lastVal, lastVal>>]

ProjectedPoint(p) ==
    [Year |-> p.Year, Historical |-> Null, Forecast |-> p.Forecast,
     High |-> p.High, Low |-> p.Low, Confidence |-> <<p.Low, p.High>>]

Merged(d, metric, future) ==
    [k \in 1..Len(d) |-> HistoricalPoint(d[k], metric)]
    \o << JunctionPoint(d[Len(d)]["Year"], d[Len(d)][metric]) >>
    \o [k \in 1..Len(future) |-> ProjectedPoint(future[k])]

runJSForecast(d, metric, horizon, sens) ==
    Merged(d, metric, JSFuture(d, metric, horizon, sens))

----------------------------------------------------------------------------
(* Forecast: the script run by the embedded Python runtime *)

\* float(v) raises for a string that is not the text of a number
PyFloatRaises(v) == v = Txt

\* years = [float(d['Year']) for d in data]: KeyError when a record has no
\* Year (JSON.stringify drops undefined fields), ValueError for a text
PyYearsRaise(d) == \E k \in 1..Len(d) : d[k]["Year"] = Undef \/ PyFloatRaises(d[k]["Year"])

\* values = [float(d[metric]) for d in data if metric in d]
PyValues(d, metric) ==
    LET present == SelectSeq(d, LAMBDA rec : rec[metric] # Undef)
    IN  Column(present, metric)

PyValuesRaise(d, metric) == \E k \in 1..Len(d) : PyFloatRaises(d[k][metric])

\* np.polyfit(x, y, 1): the set of results the library can give.
\*   - TypeError when x and y differ in length;
\*   - for at least two x that are not all equal, the least-squares line;
\*   - for x all equal the system is rank deficient: the call either raises
\*     or returns the minimum-norm solution of the column-scaled system,
\*     slope = mean(y) / (2 x), intercept = mean(y) / 2.
PolyfitRegular(x, y) == [raised |-> FALSE, slope |-> Slope(x, y), intercept |-> Intercept(x, y)]

PolyfitRaised == [raised |-> TRUE, slope |-> NaN, intercept |-> NaN]

Polyfit(x, y) ==
    IF Len(x) # Len(y) THEN {PolyfitRaised}
    ELSE IF Denominator(x) # Num(0) THEN {PolyfitRegular(x, y)}
    ELSE IF x[1] = Num(0) THEN {PolyfitRaised}
    ELSE LET mean == Div(SumTo(y, Len(y)), Num(Len(y)))
         IN  {PolyfitRaised,
              [raised |-> FALSE, slope |-> Div(mean, Mul(Num(2), x[1])),
               intercept |-> Div(mean, Num(2))]}

\* The rounding of the Python path: int(...)
PyRound(v) == PyInt(v)

PyFuturePoint(slope, intercept, lastYear, sens, horizon, i) ==
    LET year   == NumAdd(lastYear, Num(i))
        pred   == NumAdd(NumMul(slope, year), intercept)
        spread == SpreadPct(sens, i, horizon)
        high   == NumMul(pred, NumAdd(Num(1), spread))
        low    == NumMul(pred, NumAdd(Num(1), NumNeg(spread)))
    IN  [Year |-> year, Forecast |-> PyRound(pred), High |-> PyRound(high),
         Low |-> PyRound(low)]

PyThrow   == [kind |-> "throw", future |-> <<>>]
PyNoSuccess == [kind |-> "nosuccess", future |-> <<>>]

\* The outcomes of runPythonAsync(script) followed by JSON.parse: the script
\* raises ("throw"), returns success = False ("nosuccess"), or returns the
\* projected points ("ok")
PyForecastScript(d, metric, horizon, sens) ==
    IF PyYearsRaise(d) \/ PyValuesRaise(d, metric) THEN {PyThrow}
    ELSE IF ~(Len(PyValues(d, metric)) > 1) THEN {PyNoSuccess}
    ELSE LET years == Column(d, "Year")
         IN  { IF fit.raised THEN PyThrow
               ELSE [kind |-> "ok",
                     future |-> [i \in 1..horizon |->
                        PyFuturePoint(fit.slope, fit.intercept, PyInt(years[Len(years)]),
                                      sens, horizon, i)]]
               : fit \in Polyfit(years, PyValues(d, metric)) }

----------------------------------------------------------------------------
(* Valuation: the two-stage DCF of both paths *)

\* A row whose value is cut off (Math.trunc) instead of rounded
BridgeRowTruncated(name, value, enterpriseValue) ==
    [name |-> name, value |-> IF IsFinite(value) THEN PyInt(value) ELSE value,
     contribution |-> ToFixed1(Mul(Div(value, enterpriseValue), Num(100))),
     isTotal |-> FALSE]

\* The bridge rows built from the three present values
BridgeRow(name, value, enterpriseValue) ==
    [name |-> name, value |-> MathRound(value),
     contribution |-> ToFixed1(Mul(Div(value, enterpriseValue), Num(100))),
     isTotal |-> FALSE]

TotalRow(enterpriseValue) ==
    [name |-> "Enterprise Value", value |-> MathRound(enterpriseValue),
     contribution |-> Num(100), isTotal |-> TRUE]

Waterfall(discountedSum, discountedTV, enterpriseValue) ==
    << BridgeRow("Sum of FCFs", discountedSum, enterpriseValue),
       BridgeRow("Terminal Value", discountedTV, enterpriseValue),
       TotalRow(enterpriseValue) >>

\* fcf = slope * (lastYear + i) + intercept
ProjectedFCF(slope, intercept, lastYear, i) ==
    Plus(Mul(slope, Plus(lastYear, Num(i))), intercept)

\* discountedSum after the passes 1 .. k of the projection loop
RECURSIVE DiscountedSumTo(_, _, _, _, _)
DiscountedSumTo(slope, intercept, lastYear, r, k) ==
    IF k = 0 THEN Num(0)
    ELSE Plus(DiscountedSumTo(slope, intercept, lastYear, r, k - 1),
              Div(ProjectedFCF(slope, intercept, lastYear, k), Pow(Plus(Num(1), r), k)))

\* A comparison that lets equality through to the Gordon formula:  r >= g
TerminalValueOnEqual(fcf5, r, g) ==
    IF ~Lt(r, g) THEN Div(Mul(fcf5, Plus(Num(1), g)), Sub(r, g))
    ELSE Mul(fcf5, Num(15))

\* The terminal value: Gordon growth when r > g, else the exit multiple 15
TerminalValue(fcf5, r, g) ==
    IF Gt(r, g) THEN Div(Mul(fcf5, Plus(Num(1), g)), Sub(r, g))
    ELSE Mul(fcf5, Num(15))

\* A projection over the forecast horizon instead of the fixed five years
PresentValuesOverHorizon(slope, intercept, lastYear, w, tg) ==
    LET r    == Div(w, Num(100))
        g    == Div(tg, Num(100))
        dsum == DiscountedSumTo(slope, intercept, lastYear, r, forecastHorizon)
        tv   == TerminalValue(ProjectedFCF(slope, intercept, lastYear, forecastHorizon), r, g)
        dtv  == Div(tv, Pow(Plus(Num(1), r), forecastHorizon))
    IN  [sumFCF |-> dsum, terminalValue |-> dtv, enterpriseValue |-> Plus(dsum, dtv)]

\* discountedSum, discountedTV and enterpriseValue of a fitted line
PresentValues(slope, intercept, lastYear, w, tg) ==
    LET r    == Div(w, Num(100))
        g    == Div(tg, Num(100))
        dsum == DiscountedSumTo(slope, intercept, lastYear, r, 5)
        tv   == TerminalValue(ProjectedFCF(slope, intercept, lastYear, 5), r, g)
        dtv  == Div(tv, Pow(Plus(Num(1), r), 5))
    IN  [sumFCF |-> dsum, terminalValue |-> dtv, enterpriseValue |-> Plus(dsum, dtv)]

\* sharePrice of the native path: equityValue / shares
JSSharePrice(equityValue, sh) == Div(equityValue, sh)

\* The result runJSValuation stores
runJSValuation(d, w, tg, nd, sh) ==
    LET x  == Column(d, "Year")
        y  == Column(d, "Free Cash Flow")
        pv == PresentValues(Slope(x, y), Intercept(x, y), x[Len(x)], w, tg)
    IN  [sharePrice |-> JSSharePrice(Sub(pv.enterpriseValue, nd), sh),
         waterfall  |-> Waterfall(pv.sumFCF, pv.terminalValue, pv.enterpriseValue)]

\* fcf = [float(d.get('Free Cash Flow', 0)) for d in data]
PyFCF(d) ==
    [k \in 1..Len(d) |->
       IF d[k]["Free Cash Flow"] = Undef THEN Num(0) ELSE d[k]["Free Cash Flow"]]

\* share_price = equity_value / shares if shares > 0 else 0
PySharePrice(equityValue, sh) ==
    IF Gt(sh, Num(0)) THEN Div(equityValue, sh) ELSE Num(0)

\* What runValuation stores from a successful script output
ValuationFromOutput(output) ==
    [sharePrice |-> output.sharePrice,
     waterfall  |-> Waterfall(output.sumFCF, output.terminalValue, output.enterpriseValue)]

PyValThrow     == [kind |-> "throw", result |-> <<>>]
PyValNoSuccess == [kind |-> "nosuccess", result |-> <<>>]

\* The outcomes of the valuation script: it raises (a missing or textual
\* Year, a textual cash flow, a failed fit, a zero discount factor), returns
\* success = False, or returns its four numbers
PyValuationScript(d, w, tg, nd, sh) ==
    IF PyYearsRaise(d) \/ PyValuesRaise(d, "Free Cash Flow") THEN {PyValThrow}
    ELSE IF ~(Len(PyFCF(d)) > 1) THEN {PyValNoSuccess}
    ELSE IF Plus(Num(1), Div(w, Num(100))) = Num(0) THEN {PyValThrow}
    ELSE LET years == Column(d, "Year")
         IN  { IF fit.raised THEN PyValThrow
               ELSE LET pv == PresentValues(fit.slope, fit.intercept,
                                            years[Len(years)], w, tg)
                    IN  [kind |-> "ok",
                         result |-> ValuationFromOutput(
                            [sharePrice |-> PySharePrice(Sub(pv.enterpriseValue, nd), sh),
                             sumFCF |-> pv.sumFCF,
                             terminalValue |-> pv.terminalValue,
                             enterpriseValue |-> pv.enterpriseValue])]
               : fit \in Polyfit(years, PyFCF(d)) }

----------------------------------------------------------------------------
(* The integrity scan of handleFileUpload *)

checkCols == <<"Revenue", "Net Income">>

\* A test that leaves out isNaN(row[col])
IsNullValueNoNaN(v) == v = Undef \/ v = Null

\* row[col] === undefined || row[col] === null || isNaN(row[col])
IsNullValue(v) == v = Undef \/ v = Null \/ IsNaN(v)

\* The findings "Null value in row idx+1, col c" in the order logged
RECURSIVE FindingsTo(_, _)
FindingsTo(parsed, k) ==
    IF k = 0 THEN <<>>
    ELSE FindingsTo(parsed, k - 1) \o
         SelectSeq([c \in 1..Len(checkCols) |-> <<k, checkCols[c]>>],
                   LAMBDA f : IsNullValue(parsed[k][f[2]]))

\* The rows that get the note "Unusual Fiscal Year detected"
UnusualYear(v) == Lt(v, Num(2000)) \/ Gt(v, Num(2030))

RECURSIVE NotesTo(_, _)
NotesTo(parsed, k) ==
    IF k = 0 THEN <<>>
    ELSE NotesTo(parsed, k - 1) \o
         (IF UnusualYear(parsed[k]["Year"]) THEN <<k>> ELSE <<>>)

\* integrityScore after the scan: 100, minus 5 for each finding
ScoreAfter(nFindings) == 100 - 5 * nFindings

IntegrityScan(parsed) ==
    LET findings == FindingsTo(parsed, Len(parsed))
    IN  [score |-> ScoreAfter(Len(findings)), findings |-> findings,
         notes |-> NotesTo(parsed, Len(parsed))]

----------------------------------------------------------------------------
(* The application state machine (component App) *)

\* What the controls can be set to: the <select> of the metric, the range
\* inputs of horizon (1 .. 10) and sensitivity (5 .. 30, step 5), and the
\* number inputs of the valuation as far as the model types into them
Metrics           == {"Revenue", "Net Income", "Free Cash Flow"}
HorizonInputs     == 1..10
SensitivityInputs == {5, 10, 15, 20, 25, 30}
WaccInputs        == {Num(10), Num(25), Num(0)}
TermGrowthInputs  == {<<5, 2>>, Num(10)}
NetDebtInputs     == {Num(150), Num(0)}
SharesInputs      == {Num(50), Num(0), Num(-10)}

\* The inputs the user makes in the bounded runs of the whole application
Uploads          == {FileOneRow, FileSameYear, FileText, FileYearsOnly, FileHeaderOnly}
MetricEdits      == {"Revenue", "Net Income"}
HorizonEdits     == {5, 2}
SensitivityEdits == {10, 20}
WaccEdits        == {Num(10), Num(0)}
TermGrowthEdits  == {<<5, 2>>, Num(10)}
NetDebtEdits     == {Num(150), Num(0)}
SharesEdits      == {Num(50), Num(0)}

NoScan == [rows |-> 0, score |-> 100, findings |-> <<>>, notes |-> <<>>]

Init ==
    /\ data \in {generateSampleData(s.rnd, s.coin) : s \in SampleDraws}
    /\ pythonStatus = "loading"
    /\ loadPyodideDefined = FALSE
    /\ pyodideSet = FALSE
    /\ attempts = 0
    /\ intervalActive = TRUE
    /\ initPc = "idle"
    /\ forecastMetric = "Revenue"
    /\ forecastHorizon = 5
    /\ forecastSensitivity = 10
    /\ forecastData = <<>>
    /\ computeSource = "null"
    /\ forecastTimer = TRUE
    /\ forecastJobs = <<>>
    /\ forecastOutcome = "none"
    /\ baseRev = Num(100)
    /\ wacc = Num(10)
    /\ termGrowth = <<5, 2>>
    /\ netDebt = Num(150)
    /\ shares = Num(50)
    /\ valuationResult = [sharePrice |-> Num(0), waterfall |-> <<>>]
    /\ valuationSource = "null"
    /\ valuationTimer = TRUE
    /\ valuationJobs = <<>>
    /\ valuationOutcome = "none"
    /\ scanReport = NoScan
    /\ edits = 0

pollVars     == <<loadPyodideDefined, pyodideSet, attempts, intervalActive, initPc>>
forecastIn   == <<forecastMetric, forecastHorizon, forecastSensitivity>>
forecastOut  == <<forecastData, computeSource, forecastOutcome>>
valuationIn  == <<wacc, termGrowth, netDebt, shares>>
valuationOut == <<valuationResult, valuationSource, valuationOutcome>>

\* The sequence without its i-th element
RemoveAt(seq, i) == [k \in 1..(Len(seq) - 1) |-> IF k < i THEN seq[k] ELSE seq[k + 1]]

\* The CDN script defines window.loadPyodide
ScriptLoads ==
    /\ intervalActive          \* nothing reads window.loadPyodide afterwards
    /\ ~loadPyodideDefined
    /\ loadPyodideDefined' = TRUE
    /\ UNCHANGED <<data, pythonStatus, pyodideSet, attempts, intervalActive, initPc,
                   forecastIn, forecastOut, forecastTimer, forecastJobs, baseRev,
                   valuationIn, valuationOut, valuationTimer, valuationJobs,
                   scanReport, edits>>

\* setPythonStatus(s): a changed status re-runs both effects, which clear
\* their pending timeout and set a new one
SetPythonStatus(s) ==
    /\ pythonStatus' = s
    /\ forecastTimer' = (IF s # pythonStatus THEN TRUE ELSE forecastTimer)
    /\ valuationTimer' = (IF s # pythonStatus THEN TRUE ELSE valuationTimer)

\* An interval that is not cleared when window.loadPyodide is seen: every
\* later tick calls initPython again
PollTickKeepsPolling ==
    /\ intervalActive
    /\ IF loadPyodideDefined
       THEN /\ intervalActive' = TRUE
            /\ attempts' = attempts
            /\ initPc' = "loadPyodide"
            /\ UNCHANGED <<pythonStatus, forecastTimer, valuationTimer>>
       ELSE IF attempts + 1 > 20
       THEN /\ intervalActive' = FALSE
            /\ attempts' = 0
            /\ SetPythonStatus("error")
            /\ UNCHANGED initPc
       ELSE /\ attempts' = attempts + 1
            /\ UNCHANGED <<intervalActive, initPc, pythonStatus, forecastTimer,
                           valuationTimer>>
    /\ UNCHANGED <<data, loadPyodideDefined, pyodideSet, forecastIn, forecastOut,
                   forecastJobs, baseRev, valuationIn, valuationOut, valuationJobs,
                   scanReport, edits>>

\* One tick of setInterval(..., 500): attempts++, then initPython() (which
\* runs to its first await) or the timeout.  The counter lives in the
\* closure of the interval; once the interval is cleared it is dead and the
\* model puts it back to 0.
PollTick ==
    /\ intervalActive
    /\ IF loadPyodideDefined
       THEN /\ intervalActive' = FALSE
            /\ attempts' = 0
            /\ initPc' = "loadPyodide"
            /\ UNCHANGED <<pythonStatus, forecastTimer, valuationTimer>>
       ELSE IF attempts + 1 > 20
       THEN /\ intervalActive' = FALSE
            /\ attempts' = 0
            /\ SetPythonStatus("error")
            /\ UNCHANGED initPc
       ELSE /\ attempts' = attempts + 1
            /\ UNCHANGED <<intervalActive, initPc, pythonStatus, forecastTimer,
                           valuationTimer>>
    /\ UNCHANGED <<data, loadPyodideDefined, pyodideSet, forecastIn, forecastOut,
                   forecastJobs, baseRev, valuationIn, valuationOut, valuationJobs,
                   scanReport, edits>>

\* await window.loadPyodide() resolves
LoadPyodideResolves ==
    /\ initPc = "loadPyodide"
    /\ initPc' = "loadPackage"
    /\ UNCHANGED <<data, pythonStatus, loadPyodideDefined, pyodideSet, attempts,
                   intervalActive, forecastIn, forecastOut, forecastTimer, forecastJobs,
                   baseRev, valuationIn, valuationOut, valuationTimer, valuationJobs,
                   scanReport, edits>>

\* await pyodide.loadPackage("numpy") resolves: window.pyodide is set, the
\* status becomes 'ready'
LoadPackageResolves ==
    /\ initPc = "loadPackage"
    /\ initPc' = "done"
    /\ pyodideSet' = TRUE
    /\ SetPythonStatus("ready")
    /\ UNCHANGED <<data, loadPyodideDefined, attempts, intervalActive, forecastIn,
                   forecastOut, forecastJobs, baseRev, valuationIn, valuationOut,
                   valuationJobs, scanReport, edits>>

\* Either await rejects: the catch block of initPython
InitPythonFails ==
    /\ initPc \in {"loadPyodide", "loadPackage"}
    /\ initPc' = "failed"
    /\ SetPythonStatus("error")
    /\ UNCHANGED <<data, loadPyodideDefined, pyodideSet, attempts, intervalActive,
                   forecastIn, forecastOut, forecastJobs, baseRev, valuationIn,
                   valuationOut, valuationJobs, scanReport, edits>>

\* An ingestion without the  parsed.length > 0  test: whatever parseCSV
\* returns is stored
handleFileUploadUnguarded(f) ==
    /\ edits < MaxEdits
    /\ edits' = edits + 1
    /\ LET parsed == parseCSV(f)
       IN  /\ data' = parsed
           /\ baseRev' = (IF Len(parsed) > 0 THEN parsed[Len(parsed)]["Revenue"] ELSE Undef)
           /\ scanReport' = [rows |-> Len(parsed)] @@ IntegrityScan(parsed)
           /\ forecastTimer' = TRUE
           /\ valuationTimer' = TRUE
    /\ UNCHANGED <<pythonStatus, pollVars, forecastIn, forecastOut, forecastJobs,
                   valuationIn, valuationOut, valuationJobs>>

\* A gated ingestion: the parsed records are stored only when the scan finds
\* nothing (score 100)
handleFileUploadGated(f) ==
    /\ edits < MaxEdits
    /\ edits' = edits + 1
    /\ LET parsed == parseCSV(f)
       IN  IF Len(parsed) > 0
           THEN /\ scanReport' = [rows |-> Len(parsed)] @@ IntegrityScan(parsed)
                /\ IF IntegrityScan(parsed).score = 100
                   THEN /\ data' = parsed
                        /\ baseRev' = parsed[Len(parsed)]["Revenue"]
                        /\ forecastTimer' = TRUE
                        /\ valuationTimer' = TRUE
                   ELSE UNCHANGED <<data, baseRev, forecastTimer, valuationTimer>>
           ELSE UNCHANGED <<data, baseRev, scanReport, forecastTimer, valuationTimer>>
    /\ UNCHANGED <<pythonStatus, pollVars, forecastIn, forecastOut, forecastJobs,
                   valuationIn, valuationOut, valuationJobs>>

\* reader.onload of handleFileUpload for the text of file f
handleFileUpload(f) ==
    /\ edits < MaxEdits
    /\ edits' = edits + 1
    /\ LET parsed == parseCSV(f)
       IN  IF Len(parsed) > 0
           THEN /\ data' = parsed
                /\ baseRev' = parsed[Len(parsed)]["Revenue"]
                /\ scanReport' = [rows |-> Len(parsed)] @@ IntegrityScan(parsed)
                /\ forecastTimer' = TRUE
                /\ valuationTimer' = TRUE
           ELSE UNCHANGED <<data, baseRev, scanReport, forecastTimer, valuationTimer>>
    /\ UNCHANGED <<pythonStatus, pollVars, forecastIn, forecastOut, forecastJobs,
                   valuationIn, valuationOut, valuationJobs>>

\* The forecast controls
ForecastEdit ==
    /\ edits < MaxEdits
    /\ edits' = edits + 1
    /\ forecastTimer' = TRUE
    /\ UNCHANGED <<data, pythonStatus, pollVars, forecastOut, forecastJobs, baseRev,
                   valuationIn, valuationOut, valuationTimer, valuationJobs, scanReport>>

setForecastMetric(m) ==
    /\ m # forecastMetric
    /\ forecastMetric' = m
    /\ ForecastEdit
    /\ UNCHANGED <<forecastHorizon, forecastSensitivity>>

setForecastHorizon(h) ==
    /\ h # forecastHorizon
    /\ forecastHorizon' = h
    /\ ForecastEdit
    /\ UNCHANGED <<forecastMetric, forecastSensitivity>>

setForecastSensitivity(s) ==
    /\ s # forecastSensitivity
    /\ forecastSensitivity' = s
    /\ ForecastEdit
    /\ UNCHANGED <<forecastMetric, forecastHorizon>>

\* The valuation controls
ValuationEdit ==
    /\ edits < MaxEdits
    /\ edits' = edits + 1
    /\ valuationTimer' = TRUE
    /\ UNCHANGED <<data, pythonStatus, pollVars, forecastIn, forecastOut, forecastTimer,
                   forecastJobs, baseRev, valuationOut, valuationJobs, scanReport>>

setWacc(v) ==
    /\ v # wacc
    /\ wacc' = v
    /\ ValuationEdit
    /\ UNCHANGED <<termGrowth, netDebt, shares>>

setTermGrowth(v) ==
    /\ v # termGrowth
    /\ termGrowth' = v
    /\ ValuationEdit
    /\ UNCHANGED <<wacc, netDebt, shares>>

setNetDebt(v) ==
    /\ v # netDebt
    /\ netDebt' = v
    /\ ValuationEdit
    /\ UNCHANGED <<wacc, termGrowth, shares>>

setShares(v) ==
    /\ v # shares
    /\ shares' = v
    /\ ValuationEdit
    /\ UNCHANGED <<wacc, termGrowth, netDebt>>

\* A timer that is not one-shot (setInterval): it stays pending after it fired
runForecastRepeating ==
    /\ forecastTimer
    /\ forecastTimer' = forecastTimer
    /\ IF pythonStatus = "ready" /\ pyodideSet
       THEN /\ Len(forecastJobs) < MaxInFlight
            /\ forecastJobs' = Append(forecastJobs,
                  [data |-> data, metric |-> forecastMetric,
                   horizon |-> forecastHorizon, sensitivity |-> forecastSensitivity])
            /\ UNCHANGED forecastOut
       ELSE IF pythonStatus # "loading"
       THEN /\ forecastData' = runJSForecast(data, forecastMetric, forecastHorizon,
                                             forecastSensitivity)
            /\ computeSource' = "JS Fallback"
            /\ forecastOutcome' = "fallback"
            /\ UNCHANGED forecastJobs
       ELSE UNCHANGED <<forecastOut, forecastJobs>>
    /\ UNCHANGED <<data, pythonStatus, pollVars, forecastIn, baseRev, valuationIn,
                   valuationOut, valuationTimer, valuationJobs, scanReport, edits>>

\* The 200 ms timeout of the forecast effect fires: runForecast up to its
\* await (Python path) or to its end (fallback, or nothing while 'loading')
runForecast ==
    /\ forecastTimer
    /\ forecastTimer' = FALSE
    /\ IF pythonStatus = "ready" /\ pyodideSet
       THEN /\ Len(forecastJobs) < MaxInFlight
            /\ forecastJobs' = Append(forecastJobs,
                  [data |-> data, metric |-> forecastMetric,
                   horizon |-> forecastHorizon, sensitivity |-> forecastSensitivity])
            /\ UNCHANGED forecastOut
       ELSE IF pythonStatus # "loading"
       THEN /\ forecastData' = runJSForecast(data, forecastMetric, forecastHorizon,
                                             forecastSensitivity)
            /\ computeSource' = "JS Fallback"
            /\ forecastOutcome' = "fallback"
            /\ UNCHANGED forecastJobs
       ELSE UNCHANGED <<forecastOut, forecastJobs>>
    /\ UNCHANGED <<data, pythonStatus, pollVars, forecastIn, baseRev, valuationIn,
                   valuationOut, valuationTimer, valuationJobs, scanReport, edits>>

\* runPythonAsync settles for the i-th pending runForecast, which finishes
\* with the values its closure captured
runForecastResumes(i, out) ==
    LET job == forecastJobs[i]
    IN  /\ forecastJobs' = RemoveAt(forecastJobs, i)
        /\ CASE out.kind = "ok" ->
                  /\ forecastData' = Merged(job.data, job.metric, out.future)
                  /\ computeSource' = "Python/NumPy"
                  /\ forecastOutcome' = "ok"
             [] out.kind = "nosuccess" ->
                  /\ forecastOutcome' = "nosuccess"
                  /\ UNCHANGED <<forecastData, computeSource>>
             [] out.kind = "throw" ->
                  /\ forecastData' = runJSForecast(job.data, job.metric, job.horizon,
                                                   job.sensitivity)
                  /\ computeSource' = "JS Fallback"
                  /\ forecastOutcome' = "threw"
        /\ UNCHANGED <<data, pythonStatus, pollVars, forecastIn, forecastTimer, baseRev,
                       valuationIn, valuationOut, valuationTimer, valuationJobs,
                       scanReport, edits>>

\* The 250 ms timeout of the valuation effect fires
runValuation ==
    /\ valuationTimer
    /\ valuationTimer' = FALSE
    /\ IF pythonStatus = "ready" /\ pyodideSet
       THEN /\ Len(valuationJobs) < MaxInFlight
            /\ valuationJobs' = Append(valuationJobs,
                  [data |-> data, wacc |-> wacc, termGrowth |-> termGrowth,
                   netDebt |-> netDebt, shares |-> shares])
            /\ UNCHANGED valuationOut
       ELSE IF pythonStatus # "loading" /\ Len(data) # 0
       THEN /\ valuationResult' = runJSValuation(data, wacc, termGrowth, netDebt, shares)
            /\ valuationSource' = "JS Fallback"
            /\ valuationOutcome' = "fallback"
            /\ UNCHANGED valuationJobs
       ELSE UNCHANGED <<valuationOut, valuationJobs>>
    /\ UNCHANGED <<data, pythonStatus, pollVars, forecastIn, forecastOut, forecastTimer,
                   forecastJobs, baseRev, valuationIn, scanReport, edits>>

\* runPythonAsync settles for the i-th pending runValuation
runValuationResumes(i, out) ==
    LET job == valuationJobs[i]
    IN  /\ valuationJobs' = RemoveAt(valuationJobs, i)
        /\ CASE out.kind = "ok" ->
                  /\ valuationResult' = out.result
                  /\ valuationSource' = "Python/NumPy"
                  /\ valuationOutcome' = "ok"
             [] out.kind = "nosuccess" ->
                  /\ valuationOutcome' = "nosuccess"
                  /\ UNCHANGED <<valuationResult, valuationSource>>
             [] out.kind = "throw" ->
                  /\ valuationOutcome' = "threw"
                  /\ IF Len(job.data) # 0
                     THEN /\ valuationResult' = runJSValuation(job.data, job.wacc,
                                 job.termGrowth, job.netDebt, job.shares)
                          /\ valuationSource' = "JS Fallback"
                     ELSE UNCHANGED <<valuationResult, valuationSource>>
        /\ UNCHANGED <<data, pythonStatus, pollVars, forecastIn, forecastOut,
                       forecastTimer, forecastJobs, baseRev, valuationIn, valuationTimer,
                       scanReport, edits>>

Next ==
    \/ ScriptLoads
    \/ PollTick
    \/ LoadPyodideResolves
    \/ LoadPackageResolves
    \/ InitPythonFails
    \/ \E f \in Uploads : handleFileUpload(f)
    \/ \E m \in MetricEdits : setForecastMetric(m)
    \/ \E h \in HorizonEdits : setForecastHorizon(h)
    \/ \E s \in SensitivityEdits : setForecastSensitivity(s)
    \/ \E v \in WaccEdits : setWacc(v)
    \/ \E v \in TermGrowthEdits : setTermGrowth(v)
    \/ \E v \in NetDebtEdits : setNetDebt(v)
    \/ \E v \in SharesEdits : setShares(v)
    \/ runForecast
    \/ \E i \in 1..Len(forecastJobs) :
         \E out \in PyForecastScript(forecastJobs[i].data, forecastJobs[i].metric,
                                     forecastJobs[i].horizon, forecastJobs[i].sensitivity) :
            runForecastResumes(i, out)
    \/ runValuation
    \/ \E i \in 1..Len(valuationJobs) :
         \E out \in PyValuationScript(valuationJobs[i].data, valuationJobs[i].wacc,
                                      valuationJobs[i].termGrowth, valuationJobs[i].netDebt,
                                      valuationJobs[i].shares) :
            runValuationResumes(i, out)

Spec == Init /\ [][Next]_vars

----------------------------------------------------------------------------
(* The engine on settled inputs.                                           *)
(* InitEngine is the application right after the runtime status settled,   *)
(* for a user who, while the status was still 'loading' (nothing is        *)
(* computed then), uploaded at most one file and set either the forecast   *)
(* controls or the valuation inputs: both timeouts are pending, no result  *)
(* has been stored yet.  From there only the computations run.             *)

StartData ==
    {[data |-> generateSampleData(s.rnd, s.coin), baseRev |-> Num(100), scan |-> NoScan]
        : s \in SampleDraws}
    \cup
    {[data |-> parseCSV(f),
      baseRev |-> parseCSV(f)[Len(parseCSV(f))]["Revenue"],
      scan |-> [rows |-> Len(parseCSV(f))] @@ IntegrityScan(parseCSV(f))]
        : f \in {g \in Files : Len(parseCSV(g)) > 0}}

InitEngine ==
    /\ \E st \in StartData :
          /\ data = st.data
          /\ baseRev = st.baseRev
          /\ scanReport = st.scan
    /\ pythonStatus \in {"ready", "error"}
    /\ pyodideSet = (pythonStatus = "ready")
    /\ initPc = (IF pythonStatus = "ready" THEN "done" ELSE "failed")
    /\ loadPyodideDefined = TRUE
    /\ attempts = 0
    /\ intervalActive = FALSE
    /\ \/ /\ forecastMetric \in Metrics
          /\ forecastHorizon \in HorizonInputs
          /\ forecastSensitivity \in SensitivityInputs
          /\ wacc = Num(10) /\ termGrowth = <<5, 2>>
          /\ netDebt = Num(150) /\ shares = Num(50)
       \/ /\ forecastMetric = "Revenue"
          /\ forecastHorizon = 5
          /\ forecastSensitivity = 10
          /\ wacc \in WaccInputs /\ termGrowth \in TermGrowthInputs
          /\ netDebt \in NetDebtInputs /\ shares \in SharesInputs
    /\ forecastData = <<>>
    /\ computeSource = "null"
    /\ forecastTimer = TRUE
    /\ forecastJobs = <<>>
    /\ forecastOutcome = "none"
    /\ valuationResult = [sharePrice |-> Num(0), waterfall |-> <<>>]
    /\ valuationSource = "null"
    /\ valuationTimer = TRUE
    /\ valuationJobs = <<>>
    /\ valuationOutcome = "none"
    /\ edits = 0

NextEngine ==
    \/ runForecast
    \/ \E i \in 1..Len(forecastJobs) :
         \E out \in PyForecastScript(forecastJobs[i].data, forecastJobs[i].metric,
                                     forecastJobs[i].horizon, forecastJobs[i].sensitivity) :
            runForecastResumes(i, out)
    \/ runValuation
    \/ \E i \in 1..Len(valuationJobs) :
         \E out \in PyValuationScript(valuationJobs[i].data, valuationJobs[i].wacc,
                                      valuationJobs[i].termGrowth, valuationJobs[i].netDebt,
                                      valuationJobs[i].shares) :
            runValuationResumes(i, out)

SpecEngine == InitEngine /\ [][NextEngine]_vars

----------------------------------------------------------------------------
(* Uploads into the running application.                                   *)
(* InitUpload is the freshly mounted application once the runtime status   *)
(* has settled: the sample data, the default controls, both timeouts       *)
(* pending.  From there the user uploads files and                         *)
(* the two effects compute.                                                *)

InitUpload ==
    /\ data \in {generateSampleData(s.rnd, s.coin) : s \in SampleDraws}
    /\ baseRev = Num(100)
    /\ scanReport = NoScan
    /\ pythonStatus \in {"ready", "error"}
    /\ pyodideSet = (pythonStatus = "ready")
    /\ initPc = (IF pythonStatus = "ready" THEN "done" ELSE "failed")
    /\ loadPyodideDefined = TRUE
    /\ attempts = 0
    /\ intervalActive = FALSE
    /\ forecastMetric = "Revenue"
    /\ forecastHorizon = 5
    /\ forecastSensitivity = 10
    /\ wacc = Num(10) /\ termGrowth = <<5, 2>>
    /\ netDebt = Num(150) /\ shares = Num(50)
    /\ forecastData = <<>>
    /\ computeSource = "null"
    /\ forecastTimer = TRUE
    /\ forecastJobs = <<>>
    /\ forecastOutcome = "none"
    /\ valuationResult = [sharePrice |-> Num(0), waterfall |-> <<>>]
    /\ valuationSource = "null"
    /\ valuationTimer = TRUE
    /\ valuationJobs = <<>>
    /\ valuationOutcome = "none"
    /\ edits = 0

ForecastSettles ==
    \E i \in 1..Len(forecastJobs) :
       \E out \in PyForecastScript(forecastJobs[i].data, forecastJobs[i].metric,
                                   forecastJobs[i].horizon, forecastJobs[i].sensitivity) :
          runForecastResumes(i, out)

ValuationSettles ==
    \E i \in 1..Len(valuationJobs) :
       \E out \in PyValuationScript(valuationJobs[i].data, valuationJobs[i].wacc,
                                    valuationJobs[i].termGrowth, valuationJobs[i].netDebt,
                                    valuationJobs[i].shares) :
          runValuationResumes(i, out)

\* The files chosen in the upload dialog: a clean one, one with missing
\* cells, and one without records
UploadFiles == {FileExample, FileNulls, FileHeaderOnly}

NextUpload ==
    \/ \E f \in UploadFiles : handleFileUpload(f)
    \/ runForecast
    \/ ForecastSettles
    \/ runValuation
    \/ ValuationSettles

SpecUpload == InitUpload /\ [][NextUpload]_vars

\* The states in which a timeout can fire: while it is pending and, on the
\* Python path, another script may be started
runForecastEnabled ==
    /\ forecastTimer
    /\ (pythonStatus = "ready" /\ pyodideSet) => Len(forecastJobs) < MaxInFlight

runValuationEnabled ==
    /\ valuationTimer
    /\ (pythonStatus = "ready" /\ pyodideSet) => Len(valuationJobs) < MaxInFlight

\* What runForecast and runValuation do to their timeout, and what a settling
\* runPythonAsync does to the pending scripts.  No other step of NextUpload
\* clears a timeout or removes a pending script, so a step of one of these
\* is a step of runForecast, runValuation, ForecastSettles, ValuationSettles.
runForecastFires == runForecastEnabled /\ forecastTimer' = FALSE

runValuationFires == runValuationEnabled /\ valuationTimer' = FALSE

ForecastScriptSettles ==
    \E i \in 1..Len(forecastJobs) : forecastJobs' = RemoveAt(forecastJobs, i)

ValuationScriptSettles ==
    \E i \in 1..Len(valuationJobs) : valuationJobs' = RemoveAt(valuationJobs, i)

\* A pending timeout fires once its delay has passed without a new
\* dependency change, and a pending runPythonAsync settles: weak fairness of
\* runForecast, ForecastSettles, runValuation and ValuationSettles, stated on
\* the variable each of them alone decreases.
SpecUploadFair ==
    /\ SpecUpload
    /\ WF_forecastTimer(runForecastFires)
    /\ WF_forecastJobs(ForecastScriptSettles)
    /\ WF_valuationTimer(runValuationFires)
    /\ WF_valuationJobs(ValuationScriptSettles)

\* The whole application under the scheduling the browser guarantees: the
\* polling interval ticks, a pending timeout fires, a started script settles.
\* Nothing makes the CDN script load or the promises of loadPyodide and
\* loadPackage settle, so there is no fairness on ScriptLoads,
\* LoadPyodideResolves, LoadPackageResolves and InitPythonFails.
SpecFair ==
    /\ Spec
    /\ WF_vars(PollTick)
    /\ WF_forecastTimer(runForecastFires)
    /\ WF_forecastJobs(ForecastScriptSettles)
    /\ WF_valuationTimer(runValuationFires)
    /\ WF_valuationJobs(ValuationScriptSettles)

\* Uploads of every file of the model while the Python runtime has failed to
\* load: each effect then runs the JavaScript engine to completion when its
\* timeout fires.
InitScan == InitUpload /\ pythonStatus = "error"

NextScan ==
    \/ \E f \in Files : handleFileUpload(f)
    \/ runForecast
    \/ runValuation

SpecScan == InitScan /\ [][NextScan]_vars

----------------------------------------------------------------------------
(* StrategicInsight: the summary rendered from forecastData, forecastMetric *)
(* and forecastHorizon.                                                    *)

\* Natural numbers beyond the machine range, as sequences of base-1000 digits
\* (least significant first), for the comparisons of a ratio with a power
RECURSIVE BigOf(_)
BigOf(n) == IF n < 1000 THEN <<n>> ELSE <<n % 1000>> \o BigOf(n \div 1000)

RECURSIVE BigTimesFrom(_, _, _, _)
BigTimesFrom(x, m, k, carry) ==
    IF k > Len(x) THEN (IF carry = 0 THEN <<>> ELSE BigOf(carry))
    ELSE <<(x[k] * m + carry) % 1000>>
         \o BigTimesFrom(x, m, k + 1, (x[k] * m + carry) \div 1000)

BigTimes(x, m) == IF x = <<0>> THEN x ELSE BigTimesFrom(x, m, 1, 0)

RECURSIVE BigTimesPow(_, _, _)
BigTimesPow(x, m, h) == IF h = 0 THEN x ELSE BigTimesPow(BigTimes(x, m), m, h - 1)

RECURSIVE BigCmpAt(_, _, _)
BigCmpAt(x, y, k) ==
    IF k = 0 THEN 0
    ELSE IF x[k] # y[k] THEN (IF x[k] > y[k] THEN 1 ELSE -1)
    ELSE BigCmpAt(x, y, k - 1)

BigCmp(x, y) ==
    IF Len(x) # Len(y) THEN (IF Len(x) > Len(y) THEN 1 ELSE -1)
    ELSE BigCmpAt(x, y, Len(x))

\* The sign of  a/b - (p/q)^h  for a finite ratio a/b >= 0
RatioAgainstPower(ratio, p, q, h) ==
    BigCmp(BigTimesPow(BigOf(ratio[1]), q, h), BigTimesPow(BigOf(ratio[2]), p, h))

\* The possible orders of  Math.pow(ratio, 1 / horizon)  against p/q:
\* 1 above, -1 below, 0 equal, 2 when the power is NaN.  The power of a
\* negative finite base with a fractional exponent is NaN, of -Infinity
\* with a fractional exponent +Infinity.  Where the exact root equals p/q
\* (other than 1 = 1) the floating-point result may land on either side.
RootAgainst(ratio, horizon, p, q) ==
    IF ratio = NaN THEN {2}
    ELSE IF ratio = PosInf THEN {1}
    ELSE IF ratio = NegInf THEN (IF horizon = 1 THEN {-1} ELSE {1})
    ELSE IF ratio[1] < 0 THEN (IF horizon = 1 THEN {-1} ELSE {2})
    ELSE LET c == RatioAgainstPower(ratio, p, q, horizon)
         IN  IF c # 0 THEN {c} ELSE IF p = q THEN {0} ELSE {-1, 0, 1}

\* direction = cagr > 0 ? "expansion" : "contraction"
InsightDirections(ratio, horizon) ==
    {IF c = 1 THEN "expansion" ELSE "contraction" : c \in RootAgainst(ratio, horizon, 1, 1)}

\* Math.abs(cagr) > t  for t = 10 (up = 11/10, down = 9/10) and t = 5
AbsCagrAbove(ratio, horizon, up, down) ==
    {hi = 1 \/ lo = -1 : hi \in RootAgainst(ratio, horizon, up[1], up[2]),
                         lo \in RootAgainst(ratio, horizon, down[1], down[2])}

\* strength = abs(cagr) > 10 ? "aggressive" : abs(cagr) > 5 ? "moderate" : "stable"
InsightStrengths(ratio, horizon) ==
    {IF a THEN "aggressive" ELSE IF m THEN "moderate" ELSE "stable" :
        a \in AbsCagrAbove(ratio, horizon, <<11, 10>>, <<9, 10>>),
        m \in AbsCagrAbove(ratio, horizon, <<21, 20>>, <<19, 20>>)}

\* A history that is not filtered: every point of the series
InsightHistoryUnfiltered(points) == points

\* data.filter(d => d.Historical !== null && d.Historical !== undefined)
InsightHistory(points) == SelectSeq(points, LAMBDA d : d.Historical \notin {Null, Undef})

InsightForecast(points) == SelectSeq(points, LAMBDA d : d.Forecast \notin {Null, Undef})

\* The set of summaries the component can render
StrategicInsight(metric, points, horizon) ==
    IF Len(points) < 2
    THEN {[kind |-> "Insufficient data for analysis.", direction |-> "", strength |-> ""]}
    ELSE LET history  == InsightHistory(points)
             forecast == InsightForecast(points)
         IN  IF Len(history) = 0 \/ Len(forecast) = 0
             THEN {[kind |-> "Model initialization required.", direction |-> "",
                    strength |-> ""]}
             ELSE LET startVal == history[Len(history)].Historical
                      endVal   == forecast[Len(forecast)].Forecast
                      ratio    == Div(endVal, startVal)
                  IN  {[kind |-> "phase", direction |-> d, strength |-> s] :
                          d \in InsightDirections(ratio, horizon),
                          s \in InsightStrengths(ratio, horizon)}

----------------------------------------------------------------------------
(* Claims.  Those about one computation are stated under SpecEngine, where *)
(* the inputs no longer change, so the variables data, forecastMetric, ... *)
(* are the inputs of the computation whose outcome the state shows.        *)

\* C1: whenever the Python forecast succeeds, the stored series is the one
\* the JavaScript forecast computes from the same record set, metric,
\* horizon and sensitivity (same Year, Forecast, High and Low for every
\* projected year).  Stated for record sets in ascending Year order with a
\* number in every field, where neither path meets a degenerate fit.
C1_ForecastPathsAgree ==
    LET ascending == \A k \in 1..(Len(data) - 1) : Lt(data[k]["Year"], data[k + 1]["Year"])
        numeric   == \A k \in 1..Len(data) : \A f \in Fields : IsFinite(data[k][f])
    IN  (forecastOutcome = "ok" /\ ascending /\ numeric) =>
            forecastData = runJSForecast(data, forecastMetric, forecastHorizon,
                                         forecastSensitivity)

\* C2: whenever the Python valuation succeeds, the stored share price and
\* bridge are the ones the JavaScript valuation computes from the same
\* record set, wacc, terminal growth, net debt and shares; shares <= 0 and
\* records without Free Cash Flow included.  Stated for record sets of two
\* or more records in ascending Year order.
C2_ValuationPathsAgree ==
    LET ascending == \A k \in 1..(Len(data) - 1) : Lt(data[k]["Year"], data[k + 1]["Year"])
    IN  (valuationOutcome = "ok" /\ Len(data) >= 2 /\ ascending) =>
            valuationResult = runJSValuation(data, wacc, termGrowth, netDebt, shares)

\* C3: a forecast of a metric with fewer than two numeric points, and a
\* valuation of a record set with fewer than two numeric Free Cash Flow
\* points, end in the insufficient-data outcome on whichever path ran: no
\* series and no valuation result is stored.
C3_InsufficientDataOnBothPaths ==
    LET points(m) == Cardinality({k \in 1..Len(data) : IsFinite(data[k][m])})
    IN  /\ (points(forecastMetric) < 2 /\ forecastOutcome # "none") =>
              (forecastOutcome = "nosuccess" /\ forecastData = <<>>)
        /\ (points("Free Cash Flow") < 2 /\ valuationOutcome # "none") =>
              (valuationOutcome = "nosuccess" /\ valuationResult.waterfall = <<>>)

\* C4: once a computation for the current inputs has failed and nothing is
\* pending, the stored result is not the one of earlier inputs: the forecast
\* series is empty or the series of the current inputs, and likewise the
\* valuation result.
C4_NoStaleResultAfterFailure ==
    /\ (forecastOutcome \in {"nosuccess", "threw"} /\ ~forecastTimer /\ forecastJobs = <<>>) =>
          forecastData \in {<<>>, runJSForecast(data, forecastMetric, forecastHorizon,
                                                forecastSensitivity)}
    /\ (valuationOutcome \in {"nosuccess", "threw"} /\ ~valuationTimer /\ valuationJobs = <<>>) =>
          valuationResult.waterfall \in
              {<<>>, runJSValuation(data, wacc, termGrowth, netDebt, shares).waterfall}

\* C5: in every state, the initial one included, the valuation bridge has
\* exactly three entries, in the order "Sum of FCFs", "Terminal Value",
\* "Enterprise Value"; only the third is a total, with contribution 100.0.
C5_BridgeAlwaysThreeEntries ==
    LET w == valuationResult.waterfall
    IN  /\ Len(w) = 3
        /\ w[1].name = "Sum of FCFs" /\ ~w[1].isTotal
        /\ w[2].name = "Terminal Value" /\ ~w[2].isTotal
        /\ w[3].name = "Enterprise Value" /\ w[3].isTotal
        /\ w[3].contribution = Num(100)

\* C6: the integrity score of every scan lies between 0 and 100.
C6_ScoreWithinRange ==
    scanReport.score \in 0..100

\* C7: after a valuation with shares <= 0 has run, on either path, the
\* stored share price is 0.  Stated for record sets of two or more records
\* in ascending Year order with a numeric Free Cash Flow in each, so that
\* the equity value divided is a finite number.
C7_NonPositiveSharesGiveZeroPrice ==
    LET ascending == \A k \in 1..(Len(data) - 1) : Lt(data[k]["Year"], data[k + 1]["Year"])
        numeric   == \A k \in 1..Len(data) : IsFinite(data[k]["Free Cash Flow"])
    IN  (/\ ~Gt(shares, Num(0))
         /\ valuationOutcome \in {"ok", "fallback", "threw"}
         /\ Len(data) >= 2 /\ ascending /\ numeric) =>
            valuationResult.sharePrice = Num(0)

\* C8: the record set is strictly ascending by Year, so no Year occurs
\* twice and the least-squares denominator n*Sum(x^2) - (Sum x)^2 of two or
\* more records is not zero.
C8_RecordSetStrictlyAscending ==
    /\ \A k \in 1..(Len(data) - 1) : Lt(data[k]["Year"], data[k + 1]["Year"])
    /\ Len(data) >= 2 => Denominator(Column(data, "Year")) # Num(0)

\* C9: a finished forecast of h records over horizon n stored exactly
\* h + 1 + n points: the h historical points in record order, one junction
\* point, then n projected points for the years lastYear+1 .. lastYear+n.
C9_SeriesLength ==
    forecastOutcome \in {"ok", "fallback", "threw"} =>
        LET h == Len(data)
            n == forecastHorizon
            lastYear == data[h]["Year"]
        IN  /\ Len(forecastData) = h + 1 + n
            /\ \A k \in 1..h :
                  /\ forecastData[k].Year = data[k]["Year"]
                  /\ forecastData[k].Historical = data[k][forecastMetric]
                  /\ forecastData[k].Forecast = Null
            /\ forecastData[h + 1].Forecast # Null
            /\ \A i \in 1..n :
                  /\ forecastData[h + 1 + i].Year = NumAdd(lastYear, Num(i))
                  /\ forecastData[h + 1 + i].Historical = Null
                  /\ forecastData[h + 1 + i].Forecast # Null

\* C9 witness: the Python path finished a ten-year forecast of six records
C9_Witness ==
    /\ forecastOutcome = "ok"
    /\ Len(data) = 6
    /\ forecastHorizon = 10
    /\ Len(forecastData) = 17
    /\ forecastData[17].Year = NumAdd(data[6]["Year"], Num(10))

\* C10: in every stored series the junction point carries the last
\* historical year, its Historical, Forecast, High and Low all equal the
\* last historical value of the metric, and its confidence band is
\* (lastValue, lastValue).
C10_JunctionPoint ==
    forecastData # <<>> =>
        LET h == Len(data)
            lastValue == data[h][forecastMetric]
            junction == forecastData[h + 1]
        IN  /\ junction.Year = data[h]["Year"]
            /\ junction.Year = forecastData[h].Year
            /\ junction.Historical = lastValue
            /\ junction.Forecast = lastValue
            /\ junction.High = lastValue
            /\ junction.Low = lastValue
            /\ junction.Confidence = <<lastValue, lastValue>>

\* C10 witness: the fallback path stored a series whose junction carries a
\* numeric last value
C10_Witness ==
    /\ forecastOutcome = "fallback"
    /\ Len(data) >= 2
    /\ IsFinite(data[Len(data)][forecastMetric])
    /\ forecastData[Len(data) + 1].Low = data[Len(data)][forecastMetric]
    /\ forecastData[Len(data) + 1].Confidence[2] = forecastData[Len(data)].Historical

\* C11: in every stored series each historical point has Historical set and
\* Forecast, High, Low and the confidence band null; each projected point
\* has Historical null and Forecast, High, Low and the band (Low, High) set;
\* the junction point has both Historical and Forecast set.  A field is set
\* when it is neither null nor undefined.  Stated for metrics that are a
\* number in at least two records, the inputs a forecast is defined for.
C11_AbsentPattern ==
    (/\ forecastData # <<>>
     /\ Cardinality({k \in 1..Len(data) : IsFinite(data[k][forecastMetric])}) >= 2) =>
        LET h == Len(data)
            set(v) == v # Null /\ v # Undef
        IN  \A k \in 1..Len(forecastData) :
              LET p == forecastData[k]
              IN  IF k <= h
                  THEN /\ set(p.Historical)
                       /\ p.Forecast = Null /\ p.High = Null /\ p.Low = Null
                       /\ p.Confidence = <<>>
                  ELSE IF k = h + 1
                  THEN set(p.Historical) /\ set(p.Forecast)
                  ELSE /\ p.Historical = Null
                       /\ set(p.Forecast) /\ set(p.High) /\ set(p.Low)
                       /\ p.Confidence = <<p.Low, p.High>>

\* C12: every stored series is ordered by Year ascending (the junction
\* repeats the last historical year) and contiguous across the boundary:
\* the first projected year is the last historical year + 1 and each
\* further projected year is the previous one + 1.
C12_YearsAscendingContiguous ==
    forecastData # <<>> =>
        LET h == Len(data)
        IN  /\ \A k \in 1..(Len(forecastData) - 1) :
                  ~Gt(forecastData[k].Year, forecastData[k + 1].Year)
            /\ forecastData[h + 1].Year = forecastData[h].Year
            /\ \A i \in 1..forecastHorizon :
                  forecastData[h + 1 + i].Year = NumAdd(forecastData[h + i].Year, Num(1))

\* C13 (as stated): for sensitivity 20 % and horizon 5 and every record set
\* of two or more records, the stored spread High_i - Low_i is strictly
\* increasing in i = 1..5 and at i = 5 is within 1 of 2 * 0.2 * point_5.
\* Stated for record sets in ascending Year order with a number for the
\* metric in every record.
C13_SpreadStrictlyIncreasing ==
    LET h == Len(data)
        x == Column(data, "Year")
        y == Column(data, forecastMetric)
        ascending == \A k \in 1..(h - 1) : Lt(x[k], x[k + 1])
        numeric   == \A k \in 1..h : IsFinite(y[k])
        spread(i) == Sub(forecastData[h + 1 + i].High, forecastData[h + 1 + i].Low)
        point5 == NumAdd(NumMul(Slope(x, y), NumAdd(x[h], Num(5))), Intercept(x, y))
        off == Sub(spread(5), NumMul(<<2, 5>>, point5))
    IN  (/\ forecastSensitivity = 20 /\ forecastHorizon = 5
         /\ forecastOutcome \in {"ok", "fallback", "threw"}
         /\ h >= 2 /\ ascending /\ numeric) =>
            /\ \A i \in 1..4 : Lt(spread(i), spread(i + 1))
            /\ ~Gt(off, Num(1)) /\ ~Lt(off, Num(-1))

\* C13 (amended): for sensitivity 20 % and horizon 5, when the fitted trend
\* does not fall and the first projected point exceeds 25, the stored spread
\* High_i - Low_i is strictly increasing in i = 1..5; and whenever point_5 is
\* a finite number the spread at i = 5 is within 1 of 2 * 0.2 * point_5.
C13_SpreadIncreasingForLargePoints ==
    LET h == Len(data)
        x == Column(data, "Year")
        y == Column(data, forecastMetric)
        spread(i) == Sub(forecastData[h + 1 + i].High, forecastData[h + 1 + i].Low)
        point(i) == NumAdd(NumMul(Slope(x, y), NumAdd(x[h], Num(i))), Intercept(x, y))
        off == Sub(spread(5), NumMul(<<2, 5>>, point(5)))
    IN  (/\ forecastSensitivity = 20 /\ forecastHorizon = 5
         /\ forecastOutcome \in {"ok", "fallback", "threw"}) =>
            /\ (~Lt(Slope(x, y), Num(0)) /\ Gt(point(1), Num(25))) =>
                  \A i \in 1..4 : Lt(spread(i), spread(i + 1))
            /\ IsFinite(point(5)) =>
                  (IsFinite(off) /\ ~Gt(off, Num(1)) /\ ~Lt(off, Num(-1)))

\* C13 witness: the fallback path stored the cone 10, 22, 36, 52, 68 for the
\* Revenue 100, 110, 120 of 2020 .. 2022
C13_Witness ==
    /\ forecastSensitivity = 20 /\ forecastHorizon = 5
    /\ forecastOutcome = "fallback"
    /\ forecastMetric = "Revenue"
    /\ Len(data) = 3
    /\ data[1]["Year"] = Num(2020)
    /\ forecastData[5].Forecast = Num(130)
    /\ [i \in 1..5 |-> Sub(forecastData[4 + i].High, forecastData[4 + i].Low)]
          = <<Num(10), Num(22), Num(36), Num(52), Num(68)>>

\* C14: on whichever path stored the series, the Forecast, High and Low of
\* every projected point are the full-precision point, point * (1 + spread)
\* and point * (1 - spread) rounded to the nearest integer.  Stated for
\* record sets in ascending Year order with a number for the metric in every
\* record, and for full-precision values that are neither an integer nor an
\* exact half (there the last bit of the floating-point value decides).
C14_RoundedToNearest ==
    LET h == Len(data)
        x == Column(data, "Year")
        y == Column(data, forecastMetric)
        ascending == \A k \in 1..(h - 1) : Lt(x[k], x[k + 1])
        numeric   == \A k \in 1..h : IsFinite(y[k])
        point(i)  == NumAdd(NumMul(Slope(x, y), NumAdd(x[h], Num(i))), Intercept(x, y))
        pct(i)    == SpreadPct(forecastSensitivity, i, forecastHorizon)
        nearest(stored, v) == v[2] \in {1, 2} \/ stored = MathRound(v)
    IN  (/\ forecastOutcome \in {"ok", "fallback", "threw"}
         /\ h >= 2 /\ ascending /\ numeric) =>
            \A i \in 1..forecastHorizon :
               /\ nearest(forecastData[h + 1 + i].Forecast, point(i))
               /\ nearest(forecastData[h + 1 + i].High,
                          NumMul(point(i), NumAdd(Num(1), pct(i))))
               /\ nearest(forecastData[h + 1 + i].Low,
                          NumMul(point(i), NumAdd(Num(1), NumNeg(pct(i)))))

\* C15: for every stored valuation result whose three bridge values are
\* finite numbers, bridge[0].value + bridge[1].value differs from
\* bridge[2].value by at most 1; and the values are finite numbers whenever
\* the record set has two or more records in ascending Year order with a
\* numeric Free Cash Flow in each.
C15_BridgeSums ==
    valuationOutcome \in {"ok", "fallback", "threw"} =>
        LET w == valuationResult.waterfall
            off == Sub(NumAdd(w[1].value, w[2].value), w[3].value)
            finite == \A k \in 1..3 : IsFinite(w[k].value)
            ascending == \A k \in 1..(Len(data) - 1) :
                            Lt(data[k]["Year"], data[k + 1]["Year"])
            numeric == \A k \in 1..Len(data) : IsFinite(data[k]["Free Cash Flow"])
        IN  /\ Len(w) = 3
            /\ (Len(data) >= 2 /\ ascending /\ numeric) => finite
            /\ finite => (~Gt(off, Num(1)) /\ ~Lt(off, Num(-1)))

\* C15 witness: a stored result in which the separate rounding shows, the
\* two parts adding up to one more or one less than the total
C15_Witness ==
    /\ valuationOutcome \in {"ok", "fallback"}
    /\ Len(valuationResult.waterfall) = 3
    /\ \A k \in 1..3 : IsFinite(valuationResult.waterfall[k].value)
    /\ NumAdd(valuationResult.waterfall[1].value, valuationResult.waterfall[2].value)
          # valuationResult.waterfall[3].value

\* C16: the stored terminal value is the discounted Gordon-growth value
\* fcf_5 * (1 + g) / (wacc - g) exactly when wacc > g, and for every
\* wacc <= g, equality included, the discounted fcf_5 * 15; it is a finite
\* number, the difference wacc - g being divided by only when positive.
\* Stated for record sets of two or more records in ascending Year order
\* with a numeric Free Cash Flow in each.
C16_TerminalValue ==
    LET h == Len(data)
        x == Column(data, "Year")
        y == Column(data, "Free Cash Flow")
        ascending == \A k \in 1..(h - 1) : Lt(x[k], x[k + 1])
        numeric   == \A k \in 1..h : IsFinite(y[k])
        fcf5 == NumAdd(NumMul(Slope(x, y), NumAdd(x[h], Num(5))), Intercept(x, y))
        r == NumMul(wacc, <<1, 100>>)
        g == NumMul(termGrowth, <<1, 100>>)
        tv == IF Gt(r, g)
              THEN NumMul(NumMul(fcf5, NumAdd(Num(1), g)), NumInv(NumAdd(r, NumNeg(g))))
              ELSE NumMul(fcf5, Num(15))
        dtv == NumMul(tv, NumInv(Pow(NumAdd(Num(1), r), 5)))
    IN  (/\ valuationOutcome \in {"ok", "fallback", "threw"}
         /\ h >= 2 /\ ascending /\ numeric) =>
            /\ IsFinite(valuationResult.waterfall[2].value)
            /\ valuationResult.waterfall[2].value = MathRound(dtv)

\* C16 witness: a valuation with wacc equal to the terminal growth stored a
\* finite terminal value other than zero
C16_Witness ==
    /\ wacc = termGrowth
    /\ valuationOutcome \in {"ok", "fallback"}
    /\ Len(data) >= 2
    /\ Len(valuationResult.waterfall) = 3
    /\ IsFinite(valuationResult.waterfall[2].value)
    /\ valuationResult.waterfall[2].value # Num(0)

\* C17: after every upload that stored records, the scan report has exactly
\* one finding (row, field) for each record and each field of Revenue and
\* Net Income whose value is absent, null or not a number, rows counted from
\* 1; the score is 100 - 5 * (number of findings), so four rows with two
\* absent Revenue values score 90 with 2 findings; and each record with a
\* Year below 2000 or above 2030 has a note, which leaves the score alone.
C17_ScanFindings ==
    scanReport.rows > 0 =>
        LET bad(v) == v \in {Undef, Null, Txt, NaN}
            expected == {<<k, c>> \in (1..Len(data)) \X {"Revenue", "Net Income"} :
                            bad(data[k][c])}
            unusual == {k \in 1..Len(data) :
                           Lt(data[k]["Year"], Num(2000)) \/ Gt(data[k]["Year"], Num(2030))}
            findings == scanReport.findings
            notes == scanReport.notes
        IN  /\ scanReport.rows = Len(data)
            /\ {findings[j] : j \in 1..Len(findings)} = expected
            /\ Len(findings) = Cardinality(expected)
            /\ scanReport.score = 100 - 5 * Cardinality(expected)
            /\ {notes[j] : j \in 1..Len(notes)} = unusual
            /\ Len(notes) = Cardinality(unusual)

\* C17 witness: the upload of four rows, Revenue absent in rows 2 and 4 and
\* the year 2031 in row 4, scored 90 with two findings and one note
C17_Witness ==
    /\ Len(data) = 4
    /\ data[4]["Year"] = Num(2031)
    /\ scanReport.rows = 4
    /\ scanReport.score = 90
    /\ scanReport.findings = << <<2, "Revenue">>, <<4, "Revenue">> >>
    /\ scanReport.notes = <<4>>

\* A forecast run that read the record set d has taken place: the Python
\* path holds a pending or finished script of d, the fallback path has stored
\* its series of d
ForecastStartedOn(d) ==
    /\ ~forecastTimer
    /\ IF pythonStatus = "ready"
       THEN \/ \E i \in 1..Len(forecastJobs) : forecastJobs[i].data = d
            \/ forecastOutcome \in {"ok", "nosuccess", "threw"}
       ELSE /\ forecastOutcome = "fallback"
            /\ forecastData = runJSForecast(d, forecastMetric, forecastHorizon,
                                            forecastSensitivity)

ValuationStartedOn(d) ==
    /\ ~valuationTimer
    /\ IF pythonStatus = "ready"
       THEN \/ \E i \in 1..Len(valuationJobs) : valuationJobs[i].data = d
            \/ valuationOutcome \in {"ok", "nosuccess", "threw"}
       ELSE /\ valuationOutcome = "fallback"
            /\ valuationResult = runJSValuation(d, wacc, termGrowth, netDebt, shares)

\* C18: the scan is advisory.  Every upload step of a file with at least one
\* record stores the parsed records as the record set and re-arms the
\* forecast and the valuation effect, whatever the scan found; and from any
\* state where such a record set is current and an effect is armed, a run of
\* that effect on this record set follows (unless a later upload replaces
\* the records first), and every started script settles.
C18_ScanIsAdvisory ==
    /\ [][\A f \in UploadFiles :
             (handleFileUpload(f) /\ Len(parseCSV(f)) > 0) =>
                 /\ data' = parseCSV(f)
                 /\ scanReport'.score = IntegrityScan(parseCSV(f)).score
                 /\ forecastTimer' /\ valuationTimer']_vars
    /\ \A f \in UploadFiles :
          Len(parseCSV(f)) > 0 =>
             /\ (data = parseCSV(f) /\ forecastTimer)
                   ~> (data # parseCSV(f) \/ ForecastStartedOn(parseCSV(f)))
             /\ (data = parseCSV(f) /\ valuationTimer)
                   ~> (data # parseCSV(f) \/ ValuationStartedOn(parseCSV(f)))
    /\ (forecastJobs # <<>>) ~> (forecastJobs = <<>>)
    /\ (valuationJobs # <<>>) ~> (valuationJobs = <<>>)

\* An upload scored 90 has replaced the records, and both computations have
\* run on them and settled
C18_Witness ==
    /\ scanReport.rows = 4 /\ scanReport.score = 90
    /\ data = parseCSV(FileNulls)
    /\ pythonStatus = "ready"
    /\ ~forecastTimer /\ ~valuationTimer
    /\ forecastJobs = <<>> /\ valuationJobs = <<>>
    /\ forecastOutcome = "threw"
    /\ forecastData = runJSForecast(data, forecastMetric, forecastHorizon,
                                    forecastSensitivity)
    /\ valuationOutcome = "ok"
    /\ valuationResult \in
          {out.result : out \in {o \in PyValuationScript(data, wacc, termGrowth,
                                                         netDebt, shares) :
                                     o.kind = "ok"}}

\* C19 as stated: for the records (2020, 100), (2021, 110), (2022, 120),
\* horizon 2 and sensitivity 10 %, the fit has slope 10 and intercept -20080,
\* and the native forecast stores 130 for 2023, 140 for 2024, High 154 and
\* Low 126 for 2024.
C19_ExampleAsStated ==
    LET x == Column(data, "Year")
        y == Column(data, "Revenue")
    IN  (/\ data = parseCSV(FileExample)
         /\ forecastMetric = "Revenue" /\ forecastHorizon = 2
         /\ forecastSensitivity = 10
         /\ forecastOutcome \in {"fallback", "threw"}) =>
            /\ Slope(x, y) = Num(10)
            /\ Intercept(x, y) = Num(-20080)
            /\ Len(forecastData) = 6
            /\ forecastData[5].Year = Num(2023) /\ forecastData[5].Forecast = Num(130)
            /\ forecastData[6].Year = Num(2024) /\ forecastData[6].Forecast = Num(140)
            /\ forecastData[6].High = Num(154) /\ forecastData[6].Low = Num(126)

\* C19: for the records (2020, 100), (2021, 110), (2022, 120), horizon 2 and
\* sensitivity 10 %, the fit has slope 10 and intercept -20100
\* (= (330 - 10 * 6063) / 3), and the native forecast stores 130 for 2023,
\* 140 for 2024, High 154 and Low 126 for 2024.
C19_Example ==
    LET x == Column(data, "Year")
        y == Column(data, "Revenue")
    IN  (/\ data = parseCSV(FileExample)
         /\ forecastMetric = "Revenue" /\ forecastHorizon = 2
         /\ forecastSensitivity = 10
         /\ forecastOutcome \in {"fallback", "threw"}) =>
            /\ Slope(x, y) = Num(10)
            /\ Intercept(x, y) = Num(-20100)
            /\ Plus(Mul(Slope(x, y), Num(2024)), Intercept(x, y)) = Num(140)
            /\ Len(forecastData) = 6
            /\ forecastData[5].Year = Num(2023) /\ forecastData[5].Forecast = Num(130)
            /\ forecastData[6].Year = Num(2024) /\ forecastData[6].Forecast = Num(140)
            /\ forecastData[6].High = Num(154) /\ forecastData[6].Low = Num(126)

\* The native forecast of the example has been stored
C19_Witness ==
    /\ data = parseCSV(FileExample)
    /\ Len(data) = 3 /\ data[1]["Revenue"] = Num(100) /\ data[3]["Revenue"] = Num(120)
    /\ forecastMetric = "Revenue" /\ forecastHorizon = 2 /\ forecastSensitivity = 10
    /\ forecastOutcome = "fallback"
    /\ Len(forecastData) = 6
    /\ forecastData[6].Forecast = Num(140)

\* C20: the line behind every stored forecast is the least-squares fit of
\* exactly the (Year, value) pairs of the records that hold the metric.
\* For a record set in ascending Year order in which some records lack the
\* metric and at least two hold a number for it, every projected Forecast
\* is a finite number within 1 of that line's value for its year.
C20_FitUsesPresentPairs ==
    LET present == SelectSeq(data, LAMBDA rec : rec[forecastMetric] \notin {Undef, Null})
        x == Column(present, "Year")
        y == Column(present, forecastMetric)
        h == Len(data)
        ascending == \A k \in 1..(h - 1) : Lt(data[k]["Year"], data[k + 1]["Year"])
        numeric == /\ \A k \in 1..h : IsFinite(data[k]["Year"])
                   /\ \A k \in 1..Len(present) : IsFinite(y[k])
        line(year) == Plus(Mul(Slope(x, y), year), Intercept(x, y))
    IN  (/\ forecastOutcome \in {"ok", "fallback", "threw"}
         /\ ascending /\ numeric
         /\ Len(present) >= 2 /\ Len(present) < h) =>
            \A i \in 1..forecastHorizon :
               LET p == forecastData[h + 1 + i]
                   off == Sub(p.Forecast, line(p.Year))
               IN  /\ IsFinite(p.Forecast)
                   /\ ~Gt(off, Num(1)) /\ ~Lt(off, Num(-1))

\* C21: every record parsed from a file without a Budget column has
\* Budget = round(Revenue * 0.95), for every Revenue that is a number,
\* 0 included.
C21_BudgetDefault ==
    \A f \in Files :
       (/\ scanReport.rows > 0
        /\ data = parseCSV(f)
        /\ ColumnOf(NonBlank(f)[1], "Budget") = 0) =>
           \A k \in 1..Len(data) :
              IsFinite(data[k]["Revenue"]) =>
                 data[k]["Budget"] = MathRound(Mul(data[k]["Revenue"], <<19, 20>>))

C23_RecordSetNeverEmpty == Len(data) >= 1

\* A file without records has been uploaded: no scan has run and the sample
\* records are still the record set
C23_Witness ==
    /\ edits >= 1
    /\ scanReport = NoScan
    /\ data \in {generateSampleData(s.rnd, s.coin) : s \in SampleDraws}

\* C24: whenever the runtime is not ready, the native fallback serves: from
\* every state in which pythonStatus is not 'ready', a state follows in which
\* the runtime has become ready or a forecast series and a valuation have
\* been stored.
C24_FallbackServesWhenNotReady ==
    (pythonStatus # "ready") ~>
        \/ pythonStatus = "ready"
        \/ /\ forecastOutcome \in {"ok", "fallback", "threw"}
           /\ valuationOutcome \in {"ok", "fallback", "threw"}

\* C25: recomputation is debounced.  Every change of an input of an effect
\* (records, controls, runtime status) leaves exactly one timeout pending and
\* starts no computation itself; a computation starts only on the step in
\* which the pending timeout fires and is cleared, so once for any number of
\* changes that arrived while it was pending, and it reads the values of
\* the last change; and a pending timeout does fire.
C25_Debounced ==
    /\ [][LET forecastChange == \/ forecastIn' # forecastIn \/ data' # data
                                \/ pythonStatus' # pythonStatus
               startsForecast == \/ Len(forecastJobs') > Len(forecastJobs)
                                \/ (forecastOutcome' = "fallback"
                                       /\ forecastOut' # forecastOut)
           IN  /\ forecastChange => (forecastTimer' /\ ~startsForecast)
               /\ startsForecast =>
                     /\ forecastTimer /\ ~forecastTimer'
                     /\ \/ forecastJobs' = Append(forecastJobs,
                              [data |-> data, metric |-> forecastMetric,
                               horizon |-> forecastHorizon,
                               sensitivity |-> forecastSensitivity])
                        \/ forecastData' = runJSForecast(data, forecastMetric,
                                               forecastHorizon, forecastSensitivity)]_vars
    /\ [][LET valuationChange == \/ valuationIn' # valuationIn \/ data' # data
                                 \/ pythonStatus' # pythonStatus
               startsValuation == \/ Len(valuationJobs') > Len(valuationJobs)
                                 \/ (valuationOutcome' = "fallback"
                                        /\ valuationOut' # valuationOut)
           IN  /\ valuationChange => (valuationTimer' /\ ~startsValuation)
               /\ startsValuation =>
                     /\ valuationTimer /\ ~valuationTimer'
                     /\ \/ valuationJobs' = Append(valuationJobs,
                              [data |-> data, wacc |-> wacc, termGrowth |-> termGrowth,
                               netDebt |-> netDebt, shares |-> shares])
                        \/ valuationResult' = runJSValuation(data, wacc, termGrowth,
                                                             netDebt, shares)]_vars
    /\ forecastTimer ~> ~forecastTimer
    /\ valuationTimer ~> ~valuationTimer

\* Two changes of the forecast controls have arrived and one script has been
\* started, none has finished: the script pending is that of the last values
C25_Witness ==
    /\ edits = 2
    /\ forecastMetric # "Revenue" /\ forecastHorizon # 5
    /\ pythonStatus = "ready"
    /\ ~forecastTimer
    /\ forecastOutcome = "none"
    /\ forecastJobs = <<[data |-> data, metric |-> forecastMetric,
                         horizon |-> forecastHorizon,
                         sensitivity |-> forecastSensitivity]>>

handleExcelExport(xlsx) ==
    IF ~xlsx THEN "alert"
    ELSE IF ~IsNumber(valuationResult.sharePrice) THEN "TypeError"
    ELSE IF \E k \in 1..3 : k > Len(valuationResult.waterfall) THEN "TypeError"
    ELSE "written"

\* C27: in every reachable state, the one at start-up included, an export
\* with the Excel library loaded finds the three bridge entries it reads and
\* writes the report.
C27_ExportFindsBridge ==
    handleExcelExport(TRUE) = "written"

\* C28: pythonStatus changes at most once, from 'loading' to 'ready' or to
\* 'error'; initPython is started at most once, from the tick that clears
\* the interval, so that the polling timeout and initPython never both set
\* the status: after the timeout initPython has not been started, and once
\* initPython has been started no tick is left to time out.
C28_StatusSetOnce ==
    /\ [](initPc # "idle" => ~intervalActive)
    /\ []((pythonStatus # "loading" /\ initPc = "idle") => ~intervalActive)
    /\ []((pythonStatus = "ready") <=> (initPc = "done"))
    /\ [][/\ pythonStatus' # pythonStatus =>
                (pythonStatus = "loading" /\ pythonStatus' \in {"ready", "error"})
          /\ (initPc' # initPc /\ initPc' = "loadPyodide") => initPc = "idle"
          /\ initPc' = "idle" => initPc = "idle"]_vars

\* C28 witness: initPython failed after the interval was cleared, the status
\* is 'error' and the application went on (the fallback has served)
C28_Witness ==
    /\ pythonStatus = "error"
    /\ initPc = "failed"
    /\ ~intervalActive
    /\ forecastOutcome = "fallback"
    /\ edits >= 1

\* C29: an upload whose text parses to zero records changes nothing: the
\* record set, baseRev, the forecast, the valuation and the lines written by
\* the integrity scan are as before, no scan is run and no recomputation is
\* scheduled or started.
C29_EmptyUploadChangesNothing ==
    [][\A f \in Files :
          (Len(parseCSV(f)) = 0 /\ handleFileUpload(f)) =>
              UNCHANGED <<data, baseRev, forecastOut, valuationOut, scanReport,
                          forecastTimer, valuationTimer, forecastJobs, valuationJobs>>]_vars

\* C29 witness: only files without records were uploaded, after forecast and
\* valuation had been computed: the sample records, their results and the
\* empty scan report are all still there
C29_Witness ==
    /\ edits = MaxEdits
    /\ scanReport = NoScan
    /\ data \in {generateSampleData(s.rnd, s.coin) : s \in SampleDraws}
    /\ forecastOutcome = "fallback"
    /\ forecastData = runJSForecast(data, forecastMetric, forecastHorizon, forecastSensitivity)
    /\ valuationOutcome = "fallback"
    /\ ~forecastTimer /\ ~valuationTimer

\* C30: forecast and valuation are independent.  A change of the forecast
\* metric, horizon or sensitivity leaves valuationResult and valuationSource
\* as they are and schedules or starts no valuation; a change of wacc,
\* terminal growth, net debt or shares leaves forecastData and computeSource
\* as they are and schedules or starts no forecast; no step writes both
\* results.  The stored results stay those of their own inputs: a settled
\* fallback valuation is the five-year valuation of the current data, wacc,
\* terminal growth, net debt and shares whatever the forecast controls are,
\* and a settled fallback forecast is the series of the current data,
\* metric, horizon and sensitivity whatever the valuation controls are.
C30_ForecastAndValuationIndependent ==
    /\ []((valuationOutcome = "fallback" /\ ~valuationTimer) =>
             valuationResult = runJSValuation(data, wacc, termGrowth, netDebt, shares))
    /\ []((forecastOutcome = "fallback" /\ ~forecastTimer) =>
             forecastData = runJSForecast(data, forecastMetric, forecastHorizon,
                                          forecastSensitivity))
    /\ [][forecastIn' # forecastIn =>
             UNCHANGED <<valuationOut, valuationTimer, valuationJobs>>]_vars
    /\ [][valuationIn' # valuationIn =>
             UNCHANGED <<forecastOut, forecastTimer, forecastJobs>>]_vars
    /\ [][(forecastData' # forecastData \/ computeSource' # computeSource) =>
             UNCHANGED <<valuationResult, valuationSource>>]_vars

\* C30 witness: the valuation was computed, then horizon and metric were
\* changed and the forecast recomputed; the valuation is still the one of
\* the untouched valuation controls
C30_Witness ==
    /\ edits = 2
    /\ forecastHorizon # 5
    /\ forecastMetric # "Revenue"
    /\ forecastOutcome = "fallback" /\ ~forecastTimer
    /\ valuationOutcome = "fallback" /\ ~valuationTimer
    /\ valuationIn = <<Num(10), Div(Num(5), Num(2)), Num(150), Num(50)>>
    /\ valuationResult = runJSValuation(data, Num(10), Div(Num(5), Num(2)), Num(150), Num(50))

=============================================================================
